---- MODULE Spec2Model ----
(***************************************************************************)
(* A model of pyprometheus: recorders (prometheus/metrics.py) that write   *)
(* samples into per-process Redis hashes, and the collector                *)
(* (prometheus/exporter.py) that merges the hashes of all processes.       *)
(*                                                                         *)
(* Numbers.  The code converts every sample to float.  The model uses      *)
(* integers: observed values, bucket bounds and the _sum entry are in      *)
(* hundredths (0.3 is 30, the bound 1.5 is 150), counts and the amounts of *)
(* inc/dec are plain integers.  Floating point rounding is not modelled.   *)
(*                                                                         *)
(* Strings.  A label value is <<"num", n, "">> or <<"str", 0, s>>, so that *)
(* json keeps 200 and "200" apart.  A Python dict of labels is a sequence  *)
(* of <<name, value>> pairs with distinct names; a json text is            *)
(* <<"json", pairs>>.  A Redis key PROM:{pid}:{type}:{name} is the tuple   *)
(* <<pid, type, name>>, and a member "{key} {type} {name} {help}" of the   *)
(* set PROM:metric_keys is <<key, type, name, help>>.                      *)
(***************************************************************************)
EXTENDS Integers, Sequences, FiniteSets, TLC

\* ------------------------------------------------------------- bounds
\* The number of recorder calls of a behaviour of Spec.
MaxOps == 3
\* The number of inc calls of a behaviour of SpecInc.
MaxIncs == 3

\* ------------------------------------------------------ program constants
RESTRICTED_LABELS_NAMES == {"job"}
RESTRICTED_LABELS_PREFIXES == {"__"}
\* buckets = [0.1, 0.25, 0.5, 0.75, 1, 1.5, 2], in hundredths
DefaultBuckets == <<10, 25, 50, 75, 100, 150, 200>>
MetricTypes == {"counter", "gauge", "histogram", "summary"}

\* ------------------------------------------------------------ universe
Pids == {1, 2}
Names == {"m"}
Helps == {"help A", "help B"}

Num(n) == <<"num", n, "">>
Str(s) == <<"str", 0, s>>

\* The label names in use, in the order Python compares them ('_' is 0x5F,
\* before every lower-case letter).
LabelNames == <<"__name", "code", "endpoint", "host", "job", "le">>
KeyRank(k) == CHOOSE i \in DOMAIN LabelNames : LabelNames[i] = k
\* The characters of the strings startswith is applied to.
Chars(s) ==
    CASE s = "__" -> <<"_", "_">>
      [] s = "__name" -> <<"_", "_", "n", "a", "m", "e">>
      [] s = "code" -> <<"c", "o", "d", "e">>
      [] s = "endpoint" -> <<"e", "n", "d", "p", "o", "i", "n", "t">>
      [] s = "host" -> <<"h", "o", "s", "t">>
      [] s = "job" -> <<"j", "o", "b">>
      [] s = "le" -> <<"l", "e">>
startswith(s, prefix) ==
    /\ Len(Chars(prefix)) <= Len(Chars(s))
    /\ SubSeq(Chars(s), 1, Len(Chars(prefix))) = Chars(prefix)

\* The labels argument of a call with the base_labels of its recorder.
CallArgs ==
    { << <<>>, <<>> >>,
      << << <<"endpoint", Str("/")>> >>, <<>> >>,
      << << <<"endpoint", Str("/")>> >>, << <<"host", Str("h")>> >> >>,
      << << <<"job", Str("x")>> >>, <<>> >>,
      << << <<"__name", Str("x")>> >>, << <<"host", Str("h")>> >> >>,
      << << <<"endpoint", Str("/")>> >>, << <<"job", Str("x")>> >> >> }
Amounts == {-1, 0, 1}
SetValues == {1000, 9000}
ObserveValues == {-1, 30, 100}

\* ---------------------------------------------------------- Python dicts
DictKeys(d) == {d[i][1] : i \in DOMAIN d}
DictGet(d, k) == d[CHOOSE i \in DOMAIN d : d[i][1] = k][2]
DictSet(d, k, v) ==
    IF k \in DictKeys(d)
    THEN [i \in DOMAIN d |-> IF d[i][1] = k THEN <<k, v>> ELSE d[i]]
    ELSE Append(d, <<k, v>>)
RECURSIVE DictUpdate(_, _)
DictUpdate(d, e) ==
    IF e = <<>> THEN d
    ELSE DictUpdate(DictSet(d, Head(e)[1], Head(e)[2]), Tail(e))

\* json.dumps(..., sort_keys=True) and json.loads
RECURSIVE SortedInsert(_, _)
SortedInsert(s, kv) ==
    IF s = <<>> THEN <<kv>>
    ELSE IF KeyRank(kv[1]) < KeyRank(Head(s)[1]) THEN <<kv>> \o s
    ELSE <<Head(s)>> \o SortedInsert(Tail(s), kv)
RECURSIVE SortKeys(_)
SortKeys(d) == IF d = <<>> THEN <<>> ELSE SortedInsert(SortKeys(Tail(d)), Head(d))
\* A dump that kept the order of insertion.
json_dumps_unsorted(d) == <<"json", d>>
json_dumps(d) == <<"json", SortKeys(d)>>
json_loads(s) == s[2]

\* ------------------------------------------------------------ Redis hashes
EmptyHash == [f \in {} |-> 0]
HGet(h, f) == IF f \in DOMAIN h THEN h[f] ELSE 0
HSet(h, f, v) == [x \in DOMAIN h \cup {f} |-> IF x = f THEN v ELSE h[x]]
\* A store whose increment overwrote the field instead of adding to it.
HIncrByFloat_overwrite(h, f, a) ==
    [x \in DOMAIN h \cup {f} |-> IF x = f THEN a ELSE h[x]]
HIncrByFloat(h, f, a) ==
    [x \in DOMAIN h \cup {f} |-> IF x = f THEN HGet(h, f) + a ELSE h[x]]
HIncrBy(h, f, a) ==
    [x \in DOMAIN h \cup {f} |-> IF x = f THEN HGet(h, f) + a ELSE h[x]]

\* ------------------------------------------------------- metrics.py, pure
\* A key without the process id in it.
key_name_shared(pid, type, name) == <<1, type, name>>
key_name(pid, type, name) == <<pid, type, name>>
RegistrationEntry(pid, type, name, help) ==
    <<key_name(pid, type, name), type, name, help>>

\* A validation that knew the restricted names but not the prefixes.
label_names_correct_names_only(labels) ==
    \A i \in DOMAIN labels : labels[i][1] \notin RESTRICTED_LABELS_NAMES
label_names_correct(labels) ==
    \A i \in DOMAIN labels :
        /\ labels[i][1] \notin RESTRICTED_LABELS_NAMES
        /\ ~ \E p \in RESTRICTED_LABELS_PREFIXES : startswith(labels[i][1], p)

\* Metric._labels: the caller's dict is updated with base_labels, validated
\* and dumped.  err is the exception raised ("" for none), labels the
\* caller's dict as the call leaves it.
labels_of(labels, base) ==
    LET merged == DictUpdate(labels, base)
    IN  [err |-> IF label_names_correct(merged) THEN "" ELSE "ValueError",
         labels |-> merged,
         field |-> json_dumps(merged)]

\* Metric.set_value on the hash h of the recorder's key.
set_value(h, labels, base, value) ==
    IF labels # <<>> /\ ~ label_names_correct(labels)
    THEN [err |-> "ValueError", hash |-> h, labels |-> labels]
    ELSE LET l == labels_of(labels, base)
         IN  IF l.err # ""
             THEN [err |-> l.err, hash |-> h, labels |-> l.labels]
             ELSE [err |-> "", hash |-> HSet(h, l.field, value), labels |-> l.labels]

\* An inc without the test of the sign of the amount.
inc_unchecked(h, labels, base, increment) ==
    LET l == labels_of(labels, base)
    IN  IF l.err # ""
        THEN [err |-> l.err, hash |-> h, labels |-> l.labels]
        ELSE [err |-> "",
              hash |-> HIncrByFloat(h, l.field, increment),
              labels |-> l.labels]

\* Metric.inc
inc(h, labels, base, increment) ==
    IF increment < 0
    THEN [err |-> "ValueError", hash |-> h, labels |-> labels]
    ELSE LET l == labels_of(labels, base)
         IN  IF l.err # ""
             THEN [err |-> l.err, hash |-> h, labels |-> l.labels]
             ELSE [err |-> "",
                   hash |-> HIncrByFloat(h, l.field, increment),
                   labels |-> l.labels]

\* Metric.dec
metric_dec(h, labels, base, increment) ==
    IF increment < 0
    THEN [err |-> "ValueError", hash |-> h, labels |-> labels]
    ELSE LET l == labels_of(labels, base)
         IN  IF l.err # ""
             THEN [err |-> l.err, hash |-> h, labels |-> l.labels]
             ELSE [err |-> "",
                   hash |-> HIncrBy(h, l.field, -increment),
                   labels |-> l.labels]

\* A Counter that inherited dec from Metric.
counter_dec_inherited(h, labels, base, increment) ==
    metric_dec(h, labels, base, increment)

\* Counter.dec
counter_dec(h, labels, base, increment) ==
    [err |-> "TypeError", hash |-> h, labels |-> labels]

\* dec of a recorder of the given type
dec(type, h, labels, base, increment) ==
    IF type = "counter"
    THEN counter_dec(h, labels, base, increment)
    ELSE metric_dec(h, labels, base, increment)

\* Metric.get_value
get_value(h, labels, base) ==
    LET l == labels_of(labels, base)
    IN  IF l.err # "" THEN [err |-> l.err, value |-> 0]
        ELSE IF l.field \notin DOMAIN h THEN [err |-> "KeyError", value |-> 0]
        ELSE [err |-> "", value |-> h[l.field]]

\* Histogram.observe: the store increments the call issues, in order, as
\* <<le, amount>>: one per bucket with value < bucket, then +Inf, then _sum.
ObservePlan(buckets, value) ==
    [i \in 1..Len(SelectSeq(buckets, LAMBDA b : value < b)) |->
        <<Num(SelectSeq(buckets, LAMBDA b : value < b)[i]), 1>>]
    \o << <<Str("+Inf"), 1>>, <<Str("_sum"), value>> >>

\* The buckets argument of a Histogram: <<>> stands for None.
BucketArgs == { <<>>, <<50, 100>> }
buckets_of(buckets) == IF buckets = <<>> THEN DefaultBuckets ELSE buckets

\* The store's EXPIRE key time.  Redis deletes the key when the timeout is
\* not positive; a store that only forgets the expiry keeps the hash.  The
\* model takes either outcome (deletes).
expire(h, time, deletes) == IF time <= 0 /\ deletes THEN EmptyHash ELSE h

\* ------------------------------------------------------------------ state
VARIABLES
    hashes,       \* the hash stored at each key, EmptyHash when there is none
    metric_keys,  \* the set PROM:metric_keys
    proc,         \* per process: the observe call it is in, if any
    last,         \* the recorder call that returned or raised last
    nops,         \* the number of recorder calls begun
    observed,     \* history: the observe calls that returned, as a bag
    incd,         \* history: the amounts added by counter inc, per name and field
    cpc,          \* the collector: "idle", "scan", "done" or "error"
    todo,         \* the collector: the members of list_metrics() not yet visited
    metrics,      \* the collector: the dict get_all_metrics builds
    visited,      \* history: the members visited by this scan, in order
    dirty,        \* history: a recorder wrote since this scan began
    snap,         \* history, where kept: incd when this scan began, and the
                  \* values the scan before it returned
    canon         \* two calls of _labels: their arguments and results

vars == <<hashes, metric_keys, proc, last, nops, observed, incd,
          cpc, todo, metrics, visited, dirty, snap, canon>>
recorderVars == <<hashes, metric_keys, proc, last, nops, observed, incd, dirty>>
collectorVars == <<cpc, todo, metrics, visited, snap>>

AllPids == Pids \cup {3}
AllKeys == {key_name(p, t, n) : p \in AllPids, t \in MetricTypes, n \in Names}

IdleProc ==
    [pc |-> "idle", name |-> "", labels |-> <<>>, args |-> <<>>, base |-> <<>>,
     buckets |-> <<>>, value |-> 0, plan |-> <<>>, pre |-> EmptyHash]
NoCall ==
    [seq |-> 0, pid |-> 0, op |-> "", type |-> "", name |-> "", help |-> "",
     labels |-> <<>>, base |-> <<>>, buckets |-> <<>>, arg |-> 0,
     err |-> "", pre |-> EmptyHash]

\* No scan has begun; no call of _labels is under study.
NoSnap == [on |-> FALSE, start |-> EmptyHash, prev |-> EmptyHash]
NoCanon ==
    [pc |-> "", a |-> <<>>, b |-> <<>>, base |-> <<>>, sa |-> <<>>, sb |-> <<>>]

BagAdd(b, x, a) ==
    [y \in DOMAIN b \cup {x} |-> IF y = x THEN HGet(b, x) + a ELSE b[y]]

Registered(p, t, n) == \E e \in metric_keys : e[1] = key_name(p, t, n)

Init ==
    /\ hashes = [k \in AllKeys |-> EmptyHash]
    /\ metric_keys = {}
    /\ proc = [p \in AllPids |-> IdleProc]
    /\ last = NoCall
    /\ nops = 0
    /\ observed = EmptyHash
    /\ incd = EmptyHash
    /\ cpc = "idle"
    /\ todo = {}
    /\ metrics = EmptyHash
    /\ visited = <<>>
    /\ dirty = FALSE
    /\ snap = NoSnap
    /\ canon = NoCanon

\* ------------------------------------------------------- recorder actions
\* Metric.__init__ and register_metric: sadd, then expire(key, -1).
Construct(p, t, n, help, deletes) ==
    LET key == key_name(p, t, n)
    IN  /\ proc[p].pc = "idle"
        /\ metric_keys' = metric_keys \cup {RegistrationEntry(p, t, n, help)}
        /\ hashes' = [hashes EXCEPT ![key] = expire(@, -1, deletes)]
        /\ observed' =
               IF t = "histogram" /\ hashes'[key] = EmptyHash
               THEN [x \in {y \in DOMAIN observed : <<y[1], y[2]>> # <<p, n>>}
                       |-> observed[x]]
               ELSE observed
        /\ last' = [NoCall EXCEPT !.seq = last.seq + 1, !.pid = p,
                       !.op = "construct", !.type = t, !.name = n,
                       !.help = help, !.pre = hashes[key]]
        /\ nops' = nops + 1
        /\ dirty' = (dirty \/ hashes' # hashes)
        /\ UNCHANGED <<proc, incd>>
        /\ UNCHANGED <<collectorVars, canon>>

Returned(p, op, t, n, labels, base, arg, r, pre) ==
    [NoCall EXCEPT !.seq = last.seq + 1, !.pid = p, !.op = op, !.type = t,
        !.name = n, !.labels = labels, !.base = base, !.arg = arg,
        !.err = r.err, !.pre = pre]

SetValue(p, t, n, labels, base, value) ==
    LET key == key_name(p, t, n)
        r == set_value(hashes[key], labels, base, value)
    IN  /\ proc[p].pc = "idle"
        /\ Registered(p, t, n)
        /\ hashes' = [hashes EXCEPT ![key] = r.hash]
        /\ last' = Returned(p, "set_value", t, n, labels, base, value, r, hashes[key])
        /\ nops' = nops + 1
        /\ dirty' = (dirty \/ r.err = "")
        /\ UNCHANGED <<metric_keys, proc, observed, incd>>
        /\ UNCHANGED <<collectorVars, canon>>

Inc(p, t, n, labels, base, increment) ==
    LET key == key_name(p, t, n)
        r == inc(hashes[key], labels, base, increment)
    IN  /\ proc[p].pc = "idle"
        /\ Registered(p, t, n)
        /\ hashes' = [hashes EXCEPT ![key] = r.hash]
        /\ last' = Returned(p, "inc", t, n, labels, base, increment, r, hashes[key])
        /\ nops' = nops + 1
        /\ incd' = IF r.err = "" /\ t = "counter"
                   THEN BagAdd(incd, <<n, json_dumps(r.labels)>>, increment)
                   ELSE incd
        /\ dirty' = (dirty \/ r.err = "")
        /\ UNCHANGED <<metric_keys, proc, observed>>
        /\ UNCHANGED <<collectorVars, canon>>

Dec(p, t, n, labels, base, increment) ==
    LET key == key_name(p, t, n)
        r == dec(t, hashes[key], labels, base, increment)
    IN  /\ proc[p].pc = "idle"
        /\ Registered(p, t, n)
        /\ hashes' = [hashes EXCEPT ![key] = r.hash]
        /\ last' = Returned(p, "dec", t, n, labels, base, increment, r, hashes[key])
        /\ nops' = nops + 1
        /\ dirty' = (dirty \/ r.err = "")
        /\ UNCHANGED <<metric_keys, proc, observed, incd>>
        /\ UNCHANGED <<collectorVars, canon>>

GetValue(p, t, n, labels, base) ==
    LET key == key_name(p, t, n)
        r == get_value(hashes[key], labels, base)
    IN  /\ proc[p].pc = "idle"
        /\ Registered(p, t, n)
        /\ last' = Returned(p, "get_value", t, n, labels, base, r.value, r, hashes[key])
        /\ nops' = nops + 1
        /\ UNCHANGED <<hashes, metric_keys, proc, observed, incd, dirty>>
        /\ UNCHANGED <<collectorVars, canon>>

\* One store round trip of Histogram.observe: labels.update(le=...) and
\* self.inc(labels, amount) for the head of the plan, and the return after
\* the last one (labels.pop('le')).  pr is the call as it stands.
ObserveAdvance(p, pr) ==
    LET key == key_name(p, "histogram", pr.name)
        step == Head(pr.plan)
        r == inc(hashes[key], DictSet(pr.labels, "le", step[1]), pr.base, step[2])
        ends == r.err # "" \/ Len(pr.plan) = 1
        call == [NoCall EXCEPT !.seq = last.seq + 1, !.pid = p, !.op = "observe",
                    !.type = "histogram", !.name = pr.name, !.labels = pr.args,
                    !.base = pr.base, !.buckets = pr.buckets, !.arg = pr.value,
                    !.err = r.err, !.pre = pr.pre]
    IN  /\ hashes' = [hashes EXCEPT ![key] = r.hash]
        /\ proc' = [proc EXCEPT ![p] =
                       IF ends THEN IdleProc
                       ELSE [pr EXCEPT !.plan = Tail(pr.plan), !.labels = r.labels,
                                       !.pc = "observe"]]
        /\ last' = IF ends THEN call ELSE last
        /\ observed' =
               IF ends /\ r.err = ""
               THEN BagAdd(observed,
                           <<p, pr.name, json_dumps(DictUpdate(pr.args, pr.base)),
                             pr.buckets, pr.value>>, 1)
               ELSE observed
        /\ dirty' = (dirty \/ r.err = "")
        /\ UNCHANGED <<metric_keys, incd>>
        /\ UNCHANGED <<collectorVars, canon>>

ObserveCall(p, n, labels, base, buckets, value) ==
    /\ proc[p].pc = "idle"
    /\ Registered(p, "histogram", n)
    /\ nops' = nops + 1
    /\ ObserveAdvance(p, [pc |-> "call", name |-> n, labels |-> labels,
                          args |-> labels, base |-> base,
                          buckets |-> buckets_of(buckets), value |-> value,
                          plan |-> ObservePlan(buckets_of(buckets), value),
                          pre |-> hashes[key_name(p, "histogram", n)]])

ObserveStep(p) ==
    /\ proc[p].pc = "observe"
    /\ UNCHANGED nops
    /\ ObserveAdvance(p, proc[p])

\* ------------------------------------------------------ exporter.py, pure
\* Python 2 orders a number before any string, numbers by value and strings
\* by their characters: of the strings in use, '+' (0x2B) < '/' (0x2F) <
\* '_' (0x5F) < 'h' < 'x'.
StrOrder == <<"+Inf", "/", "_sum", "h", "x">>
StrRank(s) == CHOOSE i \in DOMAIN StrOrder : StrOrder[i] = s
\* An order that put every string before every number.
PyLess_strings_first(a, b) ==
    IF a[1] = "num" /\ b[1] = "num" THEN a[2] < b[2]
    ELSE IF a[1] = "num" THEN FALSE
    ELSE IF b[1] = "num" THEN TRUE
    ELSE StrRank(a[3]) < StrRank(b[3])
PyLess(a, b) ==
    IF a[1] = "num" /\ b[1] = "num" THEN a[2] < b[2]
    ELSE IF a[1] = "num" THEN TRUE
    ELSE IF b[1] = "num" THEN FALSE
    ELSE StrRank(a[3]) < StrRank(b[3])

\* sorted(dicts, key=lambda k: k['le']): a stable sort of a sequence of dicts
RECURSIVE StableInsert(_, _)
StableInsert(s, d) ==
    IF s = <<>> THEN <<d>>
    ELSE IF PyLess(DictGet(d, "le"), DictGet(Head(s), "le")) THEN <<d>> \o s
    ELSE <<Head(s)>> \o StableInsert(Tail(s), d)
RECURSIVE sorted_by_le(_)
sorted_by_le(s) ==
    IF s = <<>> THEN <<>>
    ELSE StableInsert(sorted_by_le(SubSeq(s, 1, Len(s) - 1)), s[Len(s)])

\* A merge that kept the value seen last for every type.
merge_values_overwrite(metric_type, values, existing) ==
    [f \in DOMAIN existing \cup DOMAIN values |->
        IF f \in DOMAIN values THEN values[f] ELSE existing[f]]
\* A merge that summed for every type.
merge_values_sum(metric_type, values, existing) ==
    [f \in DOMAIN existing \cup DOMAIN values |->
        IF f \notin DOMAIN values THEN existing[f]
        ELSE IF f \notin DOMAIN existing THEN values[f]
        ELSE values[f] + existing[f]]

\* The merge loop of get_metric: the fold of the new values into the dict
\* of the metric already seen.
merge_values(metric_type, values, existing) ==
    [f \in DOMAIN existing \cup DOMAIN values |->
        IF f \notin DOMAIN values THEN existing[f]
        ELSE IF f \notin DOMAIN existing THEN values[f]
        ELSE IF metric_type = "counter" \/ metric_type = "histogram"
             THEN values[f] + existing[f]
        ELSE IF metric_type = "gauge" THEN values[f]
        ELSE existing[f]]

RECURSIVE Perms(_)
Perms(S) ==
    IF S = {} THEN { <<>> }
    ELSE UNION { { <<x>> \o q : q \in Perms(S \ {x}) } : x \in S }

\* A dict of get_all_metrics().  order is the order of an OrderedDict of
\* values; a plain dict (ordered = FALSE) iterates in any order.
NoMetric ==
    [name |-> "", type |-> "", help |-> "", values |-> EmptyHash,
     ordered |-> FALSE, order |-> <<>>]

\* The fields of values a loop of get_metric meets that existing lacks:
\* their order, iter, is that of the plain dict hgetall returned.
NewFields(values, existing) ==
    IF existing = NoMetric THEN DOMAIN values
    ELSE DOMAIN values \ DOMAIN existing.values

\* RedisExporter.get_metric(metric, existing_dict), values being what
\* hgetall(metric_key) returned and existing = NoMetric standing for None.
\* err is "KeyError" when the sort meets a sample without the label le.
get_metric(metric, values, existing, iter) ==
    LET metric_type == metric[2]
        vals == IF existing = NoMetric THEN values
                ELSE merge_values(metric_type, values, existing.values)
        keys == IF existing # NoMetric /\ existing.ordered
                THEN existing.order \o iter
                ELSE iter
        dicts == [i \in DOMAIN keys |-> json_loads(keys[i])]
        nole == \E i \in DOMAIN dicts : "le" \notin DictKeys(dicts[i])
        sorted_keys == sorted_by_le(dicts)
    IN  IF metric_type = "histogram"
        THEN IF nole
             THEN [err |-> "KeyError", dict |-> NoMetric]
             ELSE [err |-> "",
                   dict |-> [name |-> metric[3], type |-> metric_type,
                             help |-> metric[4], values |-> vals, ordered |-> TRUE,
                             order |-> [i \in DOMAIN sorted_keys |->
                                           json_dumps(sorted_keys[i])]]]
        ELSE [err |-> "",
              dict |-> [name |-> metric[3], type |-> metric_type,
                        help |-> metric[4], values |-> vals,
                        ordered |-> (existing # NoMetric /\ existing.ordered),
                        order |-> IF existing # NoMetric /\ existing.ordered
                                  THEN existing.order \o iter ELSE <<>>]]

\* ------------------------------------------------------ collector actions
\* get_all_metrics, first half: list_metrics() reads the set.  keep says
\* whether the history variable snap is kept.
CollectBegin(keep) ==
    /\ cpc = "idle"
    /\ cpc' = IF metric_keys = {} THEN "done" ELSE "scan"
    /\ todo' = metric_keys
    /\ metrics' = EmptyHash
    /\ visited' = <<>>
    /\ dirty' = FALSE
    /\ snap' = IF keep THEN [snap EXCEPT !.on = TRUE, !.start = incd] ELSE snap
    /\ UNCHANGED <<hashes, metric_keys, proc, last, nops, observed, incd, canon>>
CollectStart == CollectBegin(FALSE)
\* The same, the totals added to the counters so far being remembered.
CollectStartSnap == CollectBegin(TRUE)

\* A collector that emptied each hash once it had read it.
CollectStep_consuming ==
    \E item \in todo :
        /\ cpc = "scan"
        /\ visited' = Append(visited, item)
        /\ todo' = todo \ {item}
        /\ cpc' = IF todo' = {} THEN "done" ELSE "scan"
        /\ hashes' = [hashes EXCEPT ![item[1]] = EmptyHash]
        /\ UNCHANGED <<metrics, metric_keys, proc, last, nops, observed, incd,
                       dirty, snap, canon>>

\* One turn of the loop of get_all_metrics: hgetall and the merge.
CollectStep ==
    \E item \in todo :
        LET values == hashes[item[1]]
            existing == IF item[3] \in DOMAIN metrics THEN metrics[item[3]]
                        ELSE NoMetric
            ordered == item[2] = "histogram" \/ (existing # NoMetric /\ existing.ordered)
            fresh == IF existing # NoMetric /\ existing.ordered
                     THEN NewFields(values, existing)
                     ELSE DOMAIN values \cup DOMAIN existing.values
        IN  \E iter \in IF ordered THEN Perms(fresh) ELSE { <<>> } :
                LET r == get_metric(item, values, existing, iter)
                IN  /\ cpc = "scan"
                    /\ visited' = Append(visited, item)
                    /\ todo' = todo \ {item}
                    /\ metrics' =
                           IF r.err # "" THEN metrics
                           ELSE [n \in DOMAIN metrics \cup {item[3]} |->
                                    IF n = item[3] THEN r.dict ELSE metrics[n]]
                    /\ cpc' = IF r.err # "" THEN "error"
                              ELSE IF todo' = {} THEN "done" ELSE "scan"
                    /\ UNCHANGED <<recorderVars, snap, canon>>

\* The caller drops the dict; the next scan starts afresh.
CollectReset ==
    /\ cpc \in {"done", "error"}
    /\ cpc' = "idle"
    /\ todo' = {}
    /\ metrics' = EmptyHash
    /\ visited' = <<>>
    /\ snap' = IF ~snap.on THEN snap
               ELSE [snap EXCEPT !.start = EmptyHash,
                                 !.prev = IF cpc = "done"
                                          THEN [n \in DOMAIN metrics |-> metrics[n].values]
                                          ELSE @]
    /\ UNCHANGED <<recorderVars, canon>>

\* The calls of a behaviour: any process, any recorder it may hold.
ConstructCall ==
    \E p \in Pids, t \in MetricTypes, n \in Names, help \in Helps,
       deletes \in BOOLEAN :
        nops < MaxOps /\ Construct(p, t, n, help, deletes)
SetValueCall ==
    \E p \in Pids, t \in MetricTypes, n \in Names, a \in CallArgs,
       value \in SetValues :
        nops < MaxOps /\ SetValue(p, t, n, a[1], a[2], value)
IncCall ==
    \E p \in Pids, t \in MetricTypes, n \in Names, a \in CallArgs,
       increment \in Amounts :
        nops < MaxOps /\ Inc(p, t, n, a[1], a[2], increment)
DecCall ==
    \E p \in Pids, t \in MetricTypes, n \in Names, a \in CallArgs,
       increment \in Amounts :
        nops < MaxOps /\ Dec(p, t, n, a[1], a[2], increment)
GetValueCall ==
    \E p \in Pids, t \in MetricTypes, n \in Names, a \in CallArgs :
        nops < MaxOps /\ GetValue(p, t, n, a[1], a[2])
ObserveBegin ==
    \E p \in Pids, n \in Names, a \in CallArgs, buckets \in BucketArgs,
       value \in ObserveValues :
        nops < MaxOps /\ ObserveCall(p, n, a[1], a[2], buckets, value)
ObserveNext == \E p \in AllPids : ObserveStep(p)

Next ==
    \/ ConstructCall
    \/ SetValueCall
    \/ IncCall
    \/ DecCall
    \/ GetValueCall
    \/ ObserveBegin
    \/ ObserveNext

Spec == Init /\ [][Next]_vars

\* ------------------------------------------- the collector over any store
ScanPids == {1, 2, 3}
ScanName == "m"
\* The values of the fragment of process p: counts, or gauge readings.
FragValues(t, p) ==
    IF t = "gauge" THEN {<<9000, 9001, 1000>>[p], 5} ELSE {<<1, 44, 3>>[p], 5}
FragFields ==
    { json_dumps(<< <<"endpoint", Str("/")>> >>),
      json_dumps(<< <<"endpoint", Str("/")>>, <<"host", Str("h")>> >>) }

\* Histogram.observe as a whole, from the hash h: the fold of its store
\* increments, stopping at the one that raises.
RECURSIVE observe_run(_, _, _, _)
observe_run(h, labels, base, plan) ==
    IF plan = <<>> THEN h
    ELSE LET r == inc(h, DictSet(labels, "le", Head(plan)[1]), base, Head(plan)[2])
         IN  IF r.err # "" THEN r.hash
             ELSE observe_run(r.hash, r.labels, base, Tail(plan))
observe(h, labels, base, buckets, value) ==
    observe_run(h, labels, base, ObservePlan(buckets_of(buckets), value))

\* The hashes a histogram recorder with buckets [0.5, 1] leaves.
HistFragments ==
    LET e == << <<"endpoint", Str("/")>> >>
        h1 == observe(EmptyHash, <<>>, <<>>, <<50, 100>>, 30)
        h2 == observe(EmptyHash, e, <<>>, <<50, 100>>, 100)
    IN  { EmptyHash, h1, h2,
          observe(h1, e, <<>>, <<50, 100>>, 100),
          observe(h1, <<>>, <<>>, <<50, 100>>, 70) }
Fragments(t, p) ==
    IF t = "histogram" THEN HistFragments
    ELSE UNION { [F -> FragValues(t, p)] : F \in SUBSET FragFields }

InitScan ==
    /\ \E t \in MetricTypes :
        \E frag \in [ScanPids -> UNION {Fragments(t, p) : p \in ScanPids}] :
            /\ \A p \in ScanPids : frag[p] \in Fragments(t, p)
            /\ metric_keys = {RegistrationEntry(p, t, ScanName, "help A") : p \in ScanPids}
            /\ hashes = [k \in AllKeys |->
                            IF k[2] = t /\ k[3] = ScanName THEN frag[k[1]]
                            ELSE EmptyHash]
    /\ proc = [p \in AllPids |-> IdleProc]
    /\ last = NoCall
    /\ nops = 0
    /\ observed = EmptyHash
    /\ incd = EmptyHash
    /\ cpc = "idle"
    /\ todo = {}
    /\ metrics = EmptyHash
    /\ visited = <<>>
    /\ dirty = FALSE
    /\ snap = NoSnap
    /\ canon = NoCanon

NextScan == CollectStart \/ CollectStep \/ CollectReset

SpecScan == InitScan /\ [][NextScan]_vars


\* --------------------------------- counters incremented while a scan runs
\* Three processes, each with its Counter ScanName constructed.
IncArgs ==
    { << << <<"endpoint", Str("/")>> >>, <<>> >>,
      << << <<"endpoint", Str("/")>> >>, << <<"host", Str("h")>> >> >> }
IncAmounts == {1, 5}

InitInc ==
    /\ metric_keys = {RegistrationEntry(p, "counter", ScanName, "help A") : p \in ScanPids}
    /\ hashes = [k \in AllKeys |-> EmptyHash]
    /\ proc = [p \in AllPids |-> IdleProc]
    /\ last = NoCall
    /\ nops = 0
    /\ observed = EmptyHash
    /\ incd = EmptyHash
    /\ cpc = "idle"
    /\ todo = {}
    /\ metrics = EmptyHash
    /\ visited = <<>>
    /\ dirty = FALSE
    /\ snap = NoSnap
    /\ canon = NoCanon

CounterInc ==
    \E p \in ScanPids, a \in IncArgs, increment \in IncAmounts :
        nops < MaxIncs /\ Inc(p, "counter", ScanName, a[1], a[2], increment)

NextInc == CounterInc \/ CollectStart \/ CollectStep \/ CollectReset

SpecInc == InitInc /\ [][NextInc]_vars


\* ----------------------------------- writers of every type, side by side
\* The number of write calls of a behaviour of SpecWrite.
MaxWrites == 2
\* Each process of Pids holds one recorder of each type, constructed.
InitWrite ==
    /\ metric_keys = {RegistrationEntry(p, t, n, "help A") :
                         p \in Pids, t \in MetricTypes, n \in Names}
    /\ hashes = [k \in AllKeys |-> EmptyHash]
    /\ proc = [p \in AllPids |-> IdleProc]
    /\ last = NoCall
    /\ nops = 0
    /\ observed = EmptyHash
    /\ incd = EmptyHash
    /\ cpc = "idle"
    /\ todo = {}
    /\ metrics = EmptyHash
    /\ visited = <<>>
    /\ dirty = FALSE
    /\ snap = NoSnap
    /\ canon = NoCanon

WriteSet ==
    \E p \in Pids, t \in MetricTypes, a \in IncArgs :
        nops < MaxWrites /\ SetValue(p, t, ScanName, a[1], a[2], 1000)
WriteInc ==
    \E p \in Pids, t \in MetricTypes, a \in IncArgs :
        nops < MaxWrites /\ Inc(p, t, ScanName, a[1], a[2], 1)
WriteDec ==
    \E p \in Pids, t \in MetricTypes, a \in IncArgs :
        nops < MaxWrites /\ Dec(p, t, ScanName, a[1], a[2], 1)
WriteObserve ==
    \E p \in Pids, a \in IncArgs :
        nops < MaxWrites /\ ObserveCall(p, ScanName, a[1], a[2], <<50, 100>>, 30)

NextWrite == WriteSet \/ WriteInc \/ WriteDec \/ WriteObserve \/ ObserveNext

SpecWrite == InitWrite /\ [][NextWrite]_vars


\* -------------------------- one counter incremented by 1 while scans run
\* The number of inc calls of a behaviour of SpecStale.
MaxStale == 3
StaleInc ==
    \E p \in ScanPids, a \in IncArgs :
        nops < MaxStale /\ Inc(p, "counter", ScanName, a[1], a[2], 1)

NextStale == StaleInc \/ CollectStartSnap \/ CollectStep \/ CollectReset

SpecStale == InitInc /\ [][NextStale]_vars

\* ------------------------------ the collector over any discovery set
\* The members the constructions of counters and gauges named ScanName by
\* the processes of Pids can leave in PROM:metric_keys: one per help text.
RestEntries ==
    {RegistrationEntry(p, t, ScanName, help) :
        p \in Pids, t \in {"counter", "gauge"}, help \in Helps}
\* The number of members of PROM:metric_keys in an initial state of SpecRest.
MaxEntries == 3
\* What inc(labels, 1), inc(labels, 5) and set_value(labels, 1) leave at a key.
RestFragments ==
    LET f == json_dumps(<< <<"endpoint", Str("/")>> >>)
        g == json_dumps(<< <<"endpoint", Str("/")>>, <<"host", Str("h")>> >>)
    IN  { HIncrByFloat(EmptyHash, f, 1),
          HIncrByFloat(HIncrByFloat(EmptyHash, f, 1), g, 5) }
InitRest ==
    /\ metric_keys \in {S \in SUBSET RestEntries :
                           Cardinality(S) >= 1 /\ Cardinality(S) <= MaxEntries}
    /\ \E frag \in [{e[1] : e \in RestEntries} -> RestFragments] :
           hashes = [k \in AllKeys |->
                        IF \E e \in metric_keys : e[1] = k THEN frag[k]
                        ELSE EmptyHash]
    /\ proc = [p \in AllPids |-> IdleProc]
    /\ last = NoCall
    /\ nops = 0
    /\ observed = EmptyHash
    /\ incd = EmptyHash
    /\ cpc = "idle"
    /\ todo = {}
    /\ metrics = EmptyHash
    /\ visited = <<>>
    /\ dirty = FALSE
    /\ snap = NoSnap
    /\ canon = NoCanon

SpecRest == InitRest /\ [][NextScan]_vars

\* ----------------------------------------- two calls of Metric._labels
\* The label dicts of the two calls: up to two labels, in either order of
\* insertion, the code 200 as a number and as a string.
CanonPairs ==
    { <<"endpoint", Str("/")>>, <<"endpoint", Str("x")>>,
      <<"code", Num(200)>>, <<"code", Str("200")>> }
CanonDicts ==
    { <<>> } \cup { <<x>> : x \in CanonPairs }
    \cup { <<x[1], x[2]>> : x \in {y \in CanonPairs \X CanonPairs : y[1][1] # y[2][1]} }
\* The base_labels of the recorder; the last one overrides a label.
CanonBases ==
    { <<>>, << <<"host", Str("h")>> >>, << <<"endpoint", Str("/")>> >> }
InitCanon ==
    /\ canon \in [pc : {"a"}, a : CanonDicts, b : CanonDicts, base : CanonBases,
                  sa : { <<>> }, sb : { <<>> }]
    /\ hashes = [k \in AllKeys |-> EmptyHash]
    /\ metric_keys = {}
    /\ proc = [p \in AllPids |-> IdleProc]
    /\ last = NoCall
    /\ nops = 0
    /\ observed = EmptyHash
    /\ incd = EmptyHash
    /\ cpc = "idle"
    /\ todo = {}
    /\ metrics = EmptyHash
    /\ visited = <<>>
    /\ dirty = FALSE
    /\ snap = NoSnap

\* self._labels(a), then self._labels(b), on one recorder.
LabelsA ==
    /\ canon.pc = "a"
    /\ canon' = [canon EXCEPT !.pc = "b",
                              !.sa = labels_of(canon.a, canon.base).field]
    /\ UNCHANGED <<recorderVars, collectorVars>>
LabelsB ==
    /\ canon.pc = "b"
    /\ canon' = [canon EXCEPT !.pc = "done",
                              !.sb = labels_of(canon.b, canon.base).field]
    /\ UNCHANGED <<recorderVars, collectorVars>>

NextCanon == LabelsA \/ LabelsB

SpecCanon == InitCanon /\ [][NextCanon]_vars

\* ================================================================ claims
\* What the claims say, written without the operators of the model above.
LastKey == <<last.pid, last.type, last.name>>
IsRestrictedName(k) == k = "job" \/ k = "__name"
EffectiveNames(labels, base) == DictKeys(labels) \cup DictKeys(base)
HasRestricted(labels, base) ==
    \E k \in EffectiveNames(labels, base) : IsRestrictedName(k)
\* The canonical label string of labels merged with base, and with le set.
FieldOf(labels, base) == json_dumps(DictUpdate(labels, base))
FieldLe(field, le) == json_dumps(DictSet(json_loads(field), "le", le))
AllFields == UNION {DOMAIN hashes[k] : k \in AllKeys}
ScanKey(p, t) == <<p, t, ScanName>>
ScanType == CHOOSE t \in MetricTypes : \E e \in metric_keys : e[2] = t
RECURSIVE SumHashes(_, _, _)
SumHashes(ps, t, f) ==
    IF ps = {} THEN 0
    ELSE LET p == CHOOSE x \in ps : TRUE
         IN  HGet(hashes[ScanKey(p, t)], f) + SumHashes(ps \ {p}, t, f)
ScanFields(t) == UNION {DOMAIN hashes[ScanKey(p, t)] : p \in ScanPids}
Merged == metrics[ScanName]

\* C1. No lost updates for counters: when a scan that began after the last
\* write has finished, the merged counter has exactly one sample per canonical
\* label string that was incremented, and its value is the sum of all the
\* amounts all processes added to that string.
ThmC1_NoLostUpdates ==
    (cpc = "done" /\ ~dirty) =>
        /\ ScanName \in DOMAIN metrics
        /\ DOMAIN Merged.values = {x[2] : x \in DOMAIN incd}
        /\ \A f \in DOMAIN Merged.values : Merged.values[f] = incd[<<ScanName, f>>]
WitC1_ThreeRecorders ==
    LET f == FieldOf(<< <<"endpoint", Str("/")>> >>, <<>>)
    IN  /\ cpc = "done" /\ ~dirty
        /\ HGet(hashes[ScanKey(1, "counter")], f) = 1
        /\ HGet(hashes[ScanKey(2, "counter")], f) = 1
        /\ HGet(hashes[ScanKey(3, "counter")], f) = 5
        /\ Merged.values[f] = 7

\* C2. Counter and histogram merge is the sum, whatever the order: when the
\* scan of the fragments of a counter or histogram has finished, every label
\* string of any fragment has as merged value the sum of the fragments'
\* values for it (a fragment without it adds nothing), in every order of visit.
ThmC2_MergeIsSum ==
    (cpc = "done" /\ ScanType \in {"counter", "histogram"}) =>
        /\ DOMAIN Merged.values = ScanFields(ScanType)
        /\ \A f \in ScanFields(ScanType) :
               Merged.values[f] = SumHashes(ScanPids, ScanType, f)
WitC2_FortyEight ==
    LET f == FieldOf(<< <<"endpoint", Str("/")>> >>, <<>>)
        g == FieldOf(<< <<"endpoint", Str("/")>> >>, << <<"host", Str("h")>> >>)
    IN  /\ cpc = "done" /\ ScanType = "counter"
        /\ [i \in 1..3 |-> visited[i][1][1]] = <<3, 1, 2>>
        /\ hashes[ScanKey(1, "counter")] = (f :> 1)
        /\ hashes[ScanKey(2, "counter")] = (f :> 44 @@ g :> 5)
        /\ hashes[ScanKey(3, "counter")] = (f :> 3)
        /\ Merged.values = (f :> 48 @@ g :> 5)

\* C3. Gauge merge is last-fragment-wins: while and after the fragments of a
\* gauge are visited, the merged value of each label string is the value in
\* the fragment visited last among those that hold the string; nothing is
\* summed.
LastHolder(f) ==
    LET i == CHOOSE j \in DOMAIN visited :
                 /\ f \in DOMAIN hashes[visited[j][1]]
                 /\ \A k \in DOMAIN visited :
                        f \in DOMAIN hashes[visited[k][1]] => k <= j
    IN  visited[i][1]
ThmC3_GaugeLastWins ==
    (cpc \in {"scan", "done"} /\ visited # <<>> /\ ScanType = "gauge") =>
        /\ DOMAIN Merged.values = UNION {DOMAIN hashes[visited[i][1]] : i \in DOMAIN visited}
        /\ \A f \in DOMAIN Merged.values : Merged.values[f] = hashes[LastHolder(f)][f]
WitC3_Thousand ==
    LET f == FieldOf(<< <<"endpoint", Str("/")>> >>, <<>>)
    IN  /\ cpc = "done" /\ ScanType = "gauge"
        /\ [i \in 1..3 |-> visited[i][1][1]] = <<1, 2, 3>>
        /\ hashes[ScanKey(1, "gauge")] = (f :> 9000)
        /\ hashes[ScanKey(2, "gauge")] = (f :> 9001)
        /\ hashes[ScanKey(3, "gauge")] = (f :> 1000)
        /\ Merged.values[f] = 1000

\* C4. Histogram observe step, for a valid label set and any value: when the
\* call is over, the hash of the recorder differs from the hash before the
\* call by +1 at (labels, le=b) for each configured bound b with value < b,
\* by +1 at (labels, le="+Inf"), by +value at (labels, le="_sum"), and
\* nowhere else.
ObserveDelta(field, buckets, value, f) ==
    IF \E i \in DOMAIN buckets : value < buckets[i] /\ f = FieldLe(field, Num(buckets[i]))
    THEN 1
    ELSE IF f = FieldLe(field, Str("+Inf")) THEN 1
    ELSE IF f = FieldLe(field, Str("_sum")) THEN value
    ELSE 0
ClaimC4_ObserveStep ==
    (/\ last.op = "observe"
     /\ proc[last.pid].pc = "idle"
     /\ ~HasRestricted(last.labels, last.base)) =>
        \A f \in DOMAIN hashes[LastKey] \cup DOMAIN last.pre
                 \cup {FieldLe(FieldOf(last.labels, last.base), Str("_sum"))} :
            HGet(hashes[LastKey], f) =
                HGet(last.pre, f)
                + ObserveDelta(FieldOf(last.labels, last.base), last.buckets, last.arg, f)

\* C5. Cumulative histogram: for a histogram and label set no observe call is
\* in progress on, whose observe calls all returned and used the same buckets,
\* the count stored at each bound b is the number of observed values v <= b,
\* and the count at +Inf is the number of observations.
ObservedGroups == {<<x[1], x[2], x[3], x[4]>> : x \in DOMAIN observed}
RECURSIVE CountObserved(_, _, _)
CountObserved(xs, g, bound) ==
    IF xs = {} THEN 0
    ELSE LET x == CHOOSE y \in xs : TRUE
         IN  (IF <<x[1], x[2], x[3], x[4]>> = g /\ x[5] <= bound
              THEN observed[x] ELSE 0)
             + CountObserved(xs \ {x}, g, bound)
ClaimC5_Cumulative ==
    \A g \in ObservedGroups :
        (/\ proc[g[1]].pc = "idle"
         /\ \A x \in DOMAIN observed :
                <<x[1], x[2], x[3]>> = <<g[1], g[2], g[3]>> => x[4] = g[4]) =>
            LET h == hashes[<<g[1], "histogram", g[2]>>]
            IN  /\ \A i \in DOMAIN g[4] :
                       HGet(h, FieldLe(g[3], Num(g[4][i])))
                           = CountObserved(DOMAIN observed, g, g[4][i])
                /\ HGet(h, FieldLe(g[3], Str("+Inf")))
                       = CountObserved(DOMAIN observed, g, 1000000)

\* C6. Order of a merged histogram, as first stated: the samples are in
\* non-decreasing order of numeric le and a le="+Inf" sample comes after every
\* finite bound and after every other entry of the family.
LeOf(f) == DictGet(json_loads(f), "le")
IsFinite(le) == le[1] = "num"
IsInf(le) == le = Str("+Inf")
IsSum(le) == le = Str("_sum")
OrderIsAllSamples ==
    /\ Len(Merged.order) = Cardinality(DOMAIN Merged.values)
    /\ {Merged.order[i] : i \in DOMAIN Merged.order} = DOMAIN Merged.values
ClaimC6_InfLast ==
    (cpc = "done" /\ ScanType = "histogram") =>
        /\ OrderIsAllSamples
        /\ \A i, j \in DOMAIN Merged.order :
               i < j =>
                   LET a == LeOf(Merged.order[i])
                       b == LeOf(Merged.order[j])
                   IN  /\ (IsFinite(a) /\ IsFinite(b)) => a[2] <= b[2]
                       /\ IsInf(a) => IsInf(b)
\* C6, as the code has it: the samples are in non-decreasing order of numeric
\* le, every le="+Inf" sample comes after every finite bound, and only the
\* le="_sum" entries follow the +Inf samples.
ThmC6_SumAfterInf ==
    (cpc = "done" /\ ScanType = "histogram") =>
        /\ OrderIsAllSamples
        /\ \A i, j \in DOMAIN Merged.order :
               i < j =>
                   LET a == LeOf(Merged.order[i])
                       b == LeOf(Merged.order[j])
                   IN  /\ (IsFinite(a) /\ IsFinite(b)) => a[2] <= b[2]
                       /\ IsInf(a) => (IsInf(b) \/ IsSum(b))
                       /\ IsSum(a) => IsSum(b)
WitC6_TwoLabelSets ==
    /\ cpc = "done" /\ ScanType = "histogram"
    /\ Len(visited) = 3
    /\ \E i, j, k, l \in DOMAIN Merged.order :
           /\ i < j /\ j < k /\ k < l
           /\ LeOf(Merged.order[i]) = Num(50)
           /\ LeOf(Merged.order[j]) = Num(100)
           /\ IsInf(LeOf(Merged.order[k]))
           /\ IsSum(LeOf(Merged.order[l]))
    /\ \E i, j \in DOMAIN Merged.order :
           /\ IsInf(LeOf(Merged.order[i])) /\ IsInf(LeOf(Merged.order[j]))
           /\ i # j

\* C7. Counter.dec always fails: a dec call on a counter, whatever its
\* arguments, ends with the unsupported-operation error (TypeError), and the
\* store (every hash and the registration set) is as it was before the call.
ThmC7_CounterDecFails ==
    [][(last'.seq # last.seq /\ last'.op = "dec" /\ last'.type = "counter") =>
          /\ last'.err = "TypeError"
          /\ hashes' = hashes
          /\ metric_keys' = metric_keys]_vars
WitC7_DecOnLiveCounter ==
    /\ last.op = "dec" /\ last.type = "counter"
    /\ last.arg = 1
    /\ ~HasRestricted(last.labels, last.base)
    /\ HGet(last.pre, FieldOf(last.labels, last.base)) = 1
    /\ HGet(hashes[LastKey], FieldOf(last.labels, last.base)) = 1

\* C8. Label validation: a set_value, inc, non-counter dec or observe call
\* whose effective labels (call labels or base labels) hold a label named job
\* or a label whose name starts with __ ends with the invalid-label error
\* (ValueError), and the store is as it was before the call.
ThmC8_RestrictedLabels ==
    [][(/\ last'.seq # last.seq
        /\ \/ last'.op \in {"set_value", "inc", "observe"}
           \/ last'.op = "dec" /\ last'.type # "counter"
        /\ HasRestricted(last'.labels, last'.base)) =>
          /\ last'.err = "ValueError"
          /\ hashes' = hashes
          /\ hashes'[<<last'.pid, last'.type, last'.name>>] = last'.pre
          /\ metric_keys' = metric_keys]_vars
WitC8_PrefixOnObserve ==
    /\ last.op = "observe"
    /\ "__name" \in DictKeys(last.labels)
    /\ last.err = "ValueError"
    /\ last.pre # EmptyHash
    /\ hashes[LastKey] = last.pre
WitC8_BaseJobOnSet ==
    /\ last.op = "set_value"
    /\ "job" \in DictKeys(last.base)
    /\ "job" \notin DictKeys(last.labels)
    /\ last.err = "ValueError"

\* C9. Summary merge, as stated: a scan that meets fragments of a summary under
\* one name does not yield a merged summary; it ends with an error.
ClaimC9_SummaryRejected ==
    (ScanType = "summary" /\ Len(visited) >= 2) => cpc = "error"

\* C10. Increment amounts: with valid labels, inc with a negative amount ends
\* with an error (ValueError) and leaves the store as it was; inc with an
\* amount >= 0 returns and changes the store in exactly one place, adding the
\* amount to the sample of the canonical label string or creating it with that
\* value; dec on a gauge with a negative amount is rejected like a negative inc.
OneFieldAdded(key, field, amount) ==
    /\ metric_keys' = metric_keys
    /\ \A k \in AllKeys \ {key} : hashes'[k] = hashes[k]
    /\ DOMAIN hashes'[key] = DOMAIN hashes[key] \cup {field}
    /\ \A f \in DOMAIN hashes'[key] :
           hashes'[key][f] = HGet(hashes[key], f) + (IF f = field THEN amount ELSE 0)
ThmC10_IncAmounts ==
    [][(last'.seq # last.seq /\ ~HasRestricted(last'.labels, last'.base)) =>
          /\ (last'.op = "inc" /\ last'.arg < 0) =>
                 /\ last'.err = "ValueError"
                 /\ hashes' = hashes /\ metric_keys' = metric_keys
          /\ (last'.op = "inc" /\ last'.arg >= 0) =>
                 /\ last'.err = ""
                 /\ OneFieldAdded(<<last'.pid, last'.type, last'.name>>,
                                  FieldOf(last'.labels, last'.base), last'.arg)
          /\ (last'.op = "dec" /\ last'.type = "gauge" /\ last'.arg < 0) =>
                 /\ last'.err = "ValueError"
                 /\ hashes' = hashes /\ metric_keys' = metric_keys]_vars
WitC10_AddToExisting ==
    /\ last.op = "inc" /\ last.arg = 1 /\ last.err = ""
    /\ HGet(last.pre, FieldOf(last.labels, last.base)) = 1
    /\ HGet(hashes[LastKey], FieldOf(last.labels, last.base)) = 2
WitC10_NegativeInc ==
    /\ last.op = "inc" /\ last.arg = -1 /\ last.err = "ValueError"
    /\ ~HasRestricted(last.labels, last.base)
    /\ last.pre # EmptyHash /\ hashes[LastKey] = last.pre

\* C13. The recorder never deletes samples, as stated: constructing a
\* recorder adds its entry to PROM:metric_keys and leaves every field and
\* value of the hash at its key as it was, and no step of a recorder removes
\* a field of any hash.
ClaimC13_NeverDeletes ==
    [][/\ \A k \in AllKeys : DOMAIN hashes[k] \subseteq DOMAIN hashes'[k]
       /\ (last'.seq # last.seq /\ last'.op = "construct") =>
              /\ hashes' = hashes
              /\ <<<<last'.pid, last'.type, last'.name>>, last'.type, last'.name,
                   last'.help>> \in metric_keys']_vars

\* C14. Observe atomic for readers, as stated: in every state, for every
\* histogram hash and label set, the counts of the finite bounds are
\* non-decreasing in ascending order of the bound and none exceeds the count
\* at le="+Inf".
HasLe(f) == "le" \in DictKeys(json_loads(f))
ClaimC14_ObserveAtomic ==
    \A k \in AllKeys :
        k[2] = "histogram" =>
            \A f \in DOMAIN hashes[k] :
                (HasLe(f) /\ IsFinite(LeOf(f))) =>
                    /\ hashes[k][f] <= HGet(hashes[k], FieldLe(f, Str("+Inf")))
                    /\ \A g \in DOMAIN hashes[k] :
                           (/\ HasLe(g) /\ IsFinite(LeOf(g))
                            /\ FieldLe(f, LeOf(g)) = g
                            /\ LeOf(f)[2] <= LeOf(g)[2]) =>
                               hashes[k][f] <= hashes[k][g]

\* C15. Counters are monotone, as stated: no step (construction, set_value,
\* inc, dec, get_value) lowers the value stored for a label string under the
\* key of a counter; a string that is removed has lost its value.
ClaimC15_CounterMonotone ==
    [][\A k \in AllKeys :
          k[2] = "counter" =>
              \A f \in DOMAIN hashes[k] : HGet(hashes'[k], f) >= hashes[k][f]]_vars

\* C18. Observe is all-or-nothing, as stated: when an observe call has
\* raised, the hash of the histogram is what it was when the call began.
ClaimC18_ObserveAllOrNothing ==
    (last.op = "observe" /\ last.err # "" /\ proc[last.pid].pc = "idle") =>
        hashes[LastKey] = last.pre

\* C16. Writers are isolated by key: a step of a write call (set_value, inc,
\* dec, observe) of process p on the recorder of a type and name changes no
\* hash but the one at the key of p, that type and that name; so processes
\* with distinct ids never write the same key.
ThmC16_WritersIsolated ==
    [][\A k \in AllKeys :
          hashes'[k] # hashes[k] =>
              \/ /\ last'.seq # last.seq
                 /\ last'.op \in {"set_value", "inc", "dec", "observe"}
                 /\ k = <<last'.pid, last'.type, last'.name>>
              \/ \E p \in AllPids :
                     /\ proc'[p].pc = "observe" /\ proc'[p] # proc[p]
                     /\ k = <<p, "histogram", proc'[p].name>>]_vars
WitC16_SecondWriter ==
    /\ last.pid = 2 /\ last.op = "set_value" /\ last.err = ""
    /\ hashes[<<1, last.type, last.name>>] # EmptyHash
    /\ hashes[<<2, last.type, last.name>>] # EmptyHash
    /\ \A f \in DOMAIN hashes[<<1, last.type, last.name>>] :
           hashes[<<1, last.type, last.name>>][f] = 1

\* C19. Bounded staleness: for a counter written only through inc, a scan
\* that runs while the writers run returns for each label string a value that
\* is at least the total of all processes when the scan began and at most the
\* total when it finished; and no value is lower than the one the scan before
\* it returned.
TotalNow(f) == SumHashes(ScanPids, "counter", f)
ThmC19_BoundedStaleness ==
    /\ \A x \in DOMAIN incd : incd[x] = TotalNow(x[2])
    /\ cpc = "done" =>
           /\ \A x \in DOMAIN snap.start :
                  /\ x[2] \in DOMAIN Merged.values
                  /\ Merged.values[x[2]] >= snap.start[x]
           /\ \A f \in DOMAIN Merged.values : Merged.values[f] <= TotalNow(f)
           /\ \A n \in DOMAIN snap.prev :
                  \A f \in DOMAIN snap.prev[n] :
                      /\ f \in DOMAIN metrics[n].values
                      /\ metrics[n].values[f] >= snap.prev[n][f]
WitC19_MixedGenerations ==
    LET f == FieldOf(<< <<"endpoint", Str("/")>> >>, <<>>)
    IN  /\ cpc = "done" /\ last.pid = 2
        /\ snap.start = (<<ScanName, f>> :> 1)
        /\ hashes[ScanKey(1, "counter")] = (f :> 2)
        /\ hashes[ScanKey(2, "counter")] = (f :> 1)
        /\ hashes[ScanKey(3, "counter")] = EmptyHash
        /\ Merged.values = (f :> 2)
WitC19_SecondScanHigher ==
    LET f == FieldOf(<< <<"endpoint", Str("/")>> >>, <<>>)
    IN  /\ cpc = "done"
        /\ ScanName \in DOMAIN snap.prev
        /\ snap.prev[ScanName] = (f :> 1)
        /\ Merged.values = (f :> 3)

\* C12. The collector is read-only: no step of the collector (list_metrics,
\* a turn of get_all_metrics with its get_metric, the return of the dict that
\* print_metrics formats), wherever it falls among the steps of the writers,
\* changes the set PROM:metric_keys or any field of any hash.
CollectorStepped == <<cpc, todo, metrics, visited>>' # <<cpc, todo, metrics, visited>>
ThmC12_CollectorReadOnly ==
    [][CollectorStepped => (hashes' = hashes /\ metric_keys' = metric_keys)]_vars
WitC12_ScanAmongWriters ==
    /\ cpc = "done" /\ dirty /\ Len(visited) = 3
    /\ \A p \in ScanPids : hashes[ScanKey(p, "counter")] # EmptyHash
    /\ Merged.values # EmptyHash
    /\ \E f \in DOMAIN Merged.values : Merged.values[f] < TotalNow(f)

\* C17. No double counting, as stated: when a scan has finished, the merged
\* value of each label string of a counter is no more than the sum, over the
\* keys registered for the name, of the value stored at the key, whatever
\* PROM:metric_keys holds.
RECURSIVE SumKeys(_, _)
SumKeys(ks, f) ==
    IF ks = {} THEN 0
    ELSE LET k == CHOOSE x \in ks : TRUE
         IN  HGet(hashes[k], f) + SumKeys(ks \ {k}, f)
ClaimC17_NoDoubleCounting ==
    (cpc = "done" /\ \A e \in metric_keys : e[2] = "counter") =>
        \A f \in DOMAIN Merged.values :
            Merged.values[f] <= SumKeys({e[1] : e \in metric_keys}, f)

\* C20. Type-consistent merging, as stated: every member of PROM:metric_keys
\* whose hash was folded into a merged metric has the type the merged metric
\* reports.
ClaimC20_TypeConsistent ==
    \A n \in DOMAIN metrics :
        \A i \in DOMAIN visited :
            visited[i][3] = n => visited[i][2] = metrics[n].type

\* C11. Canonicalization, as first stated: two label mappings with the same
\* pairs, in whatever order they were inserted, and the same base_labels have
\* the same canonical string, and two mappings that differ in a key or a
\* value have different canonical strings.
PairsOf(d) == {d[i] : i \in DOMAIN d}
ClaimC11_Injective ==
    canon.pc = "done" =>
        /\ PairsOf(canon.a) = PairsOf(canon.b) => canon.sa = canon.sb
        /\ PairsOf(canon.a) # PairsOf(canon.b) => canon.sa # canon.sb
\* C11, as the code has it: two label mappings with the same pairs, in
\* whatever order they were inserted, and the same base_labels have the same
\* canonical string; and the canonical strings of two mappings are different
\* exactly when the mappings, each merged with the base_labels (a base label
\* replacing a call label of the same name), differ in a key or a value.
EffectivePairs(d, base) ==
    {x \in PairsOf(d) : x[1] \notin DictKeys(base)} \cup PairsOf(base)
ThmC11_CanonicalOrderFree ==
    canon.pc = "done" =>
        /\ PairsOf(canon.a) = PairsOf(canon.b) => canon.sa = canon.sb
        /\ canon.sa = canon.sb <=>
               EffectivePairs(canon.a, canon.base) = EffectivePairs(canon.b, canon.base)
WitC11_TwoOrders ==
    /\ canon.pc = "done"
    /\ Len(canon.a) = 2 /\ canon.a # canon.b
    /\ PairsOf(canon.a) = PairsOf(canon.b)
    /\ canon.base # <<>>
    /\ canon.sa = canon.sb
WitC11_NumberAndString ==
    /\ canon.pc = "done"
    /\ canon.a = << <<"code", Num(200)>> >>
    /\ canon.b = << <<"code", Str("200")>> >>
    /\ canon.sa # canon.sb

====
